---- MODULE Spec2Model ----
(***************************************************************************)
(* Software planet renderer (src/main.rs): the main loop, handle_input and *)
(* render, together with the Framebuffer, vertex stage and rasterizer they *)
(* call.  Colours are kept symbolically as the term                       *)
(* [shader, fragment, uniforms] a shader call computes, so that the        *)
(* provenance of every stored pixel can be read back from the buffer.      *)
(* Coordinates are integers; one model unit is 0.4 world units, so that    *)
(* the ring offset of -0.4 in render is one unit.                          *)
(***************************************************************************)
EXTENDS Integers, Sequences, FiniteSets, TLC

\* ----- bounds of the model ------------------------------------------------
Width == 2            \* framebuffer_width  (800 in main)
Height == 2           \* framebuffer_height (600 in main)
MaxVerts == 7         \* longest planet vertex array
MaxRingVerts == 4     \* longest ring vertex array
MaxPan == 1           \* largest camera pan, in either direction

\* ----- program constants --------------------------------------------------
RingTranslationY == -1          \* Vec3::new(0.0, -0.4, 0.0), in model units
ChunkSize == 3                  \* chunks(3)

Shaders == {"rocky_planet_shader", "gas_giant_shader", "volcanic_planet_shader",
            "icy_planet_shader", "desert_planet_shader", "water_planet_shader",
            "moon_shader", "gas_giant_shader2"}
NumberKeys == 1..8
MoveKeys == {"A", "D"}

\* ----- mesh data (what Obj::get_vertex_array returns) ---------------------
PoolX == <<-2, 2, -2, 0, 1, 0>>
PoolY == <<-2, -2, 2, 1, 0, -1>>
PoolZ == <<1, 1, 2, 0, 3, 0>>
MeshVertex(i) == [id |-> i, x |-> PoolX[((i - 1) % 6) + 1],
                  y |-> PoolY[((i - 1) % 6) + 1], z |-> PoolZ[((i - 1) % 6) + 1]]
RingVertex(i) == [id |-> 100 + i, x |-> PoolX[((i + 2) % 6) + 1],
                  y |-> PoolY[(i % 6) + 1] + 1, z |-> PoolZ[((i + 2) % 6) + 1]]
PlanetMesh(n) == [i \in 1..n |-> MeshVertex(i)]
RingMesh(n) == [i \in 1..n |-> RingVertex(i)]

\* ----- pure helpers ---------------------------------------------------------
Min2(a, b) == IF a < b THEN a ELSE b
Max2(a, b) == IF a > b THEN a ELSE b
Min3(a, b, c) == Min2(a, Min2(b, c))
Max3(a, b, c) == Max2(a, Max2(b, c))

\* Rust `f as usize`: a saturating cast, negative values become 0.  (The upper
\* saturation at usize::MAX lies far beyond every coordinate of the model.)
AsUsize(f) == IF f < 0 THEN 0 ELSE f

\* vertex_shader: view (camera pan) then viewport (Y flipped, origin top-left).
vertex_shader(vertex, u) ==
  [id |-> vertex.id,
   x |-> (vertex.x - u.view) + (u.viewport_w \div 2),
   y |-> (u.viewport_h \div 2) - vertex.y,
   z |-> vertex.z]

\* mutant: overlapping windows(3) in place of chunks(3)
chunks_windows(s) ==
  [k \in 1..(IF Len(s) >= ChunkSize THEN Len(s) - ChunkSize + 1 ELSE 0) |->
     SubSeq(s, k, k + ChunkSize - 1)]

\* transformed.chunks(3).filter(len == 3).map([tri[0], tri[1], tri[2]])
chunks(s) ==
  LET nchunks == (Len(s) + ChunkSize - 1) \div ChunkSize
      chunk(k) == SubSeq(s, ChunkSize * (k - 1) + 1, Min2(ChunkSize * k, Len(s)))
      all == [k \in 1..nchunks |-> chunk(k)]
  IN SelectSeq(all, LAMBDA tri : Len(tri) = ChunkSize)

\* edge function of the rasterizer
edge_function(a, b, px, py) == (px - a.x) * (b.y - a.y) - (py - a.y) * (b.x - a.x)

\* triangle(v1, v2, v3): bounding-box scan, barycentric inside test.
triangle(v1, v2, v3) ==
  LET min_x == Min3(v1.x, v2.x, v3.x)
      max_x == Max3(v1.x, v2.x, v3.x)
      min_y == Min3(v1.y, v2.y, v3.y)
      max_y == Max3(v1.y, v2.y, v3.y)
      bw == max_x - min_x + 1
      bh == max_y - min_y + 1
      area == edge_function(v1, v2, v3.x, v3.y)
      w1(px, py) == edge_function(v2, v3, px, py)
      w2(px, py) == edge_function(v3, v1, px, py)
      w3(px, py) == edge_function(v1, v2, px, py)
      frag(k) ==
        LET px == min_x + ((k - 1) % bw)
            py == min_y + ((k - 1) \div bw)
        IN [x |-> px, y |-> py,
            inside |-> /\ w1(px, py) * area >= 0
                       /\ w2(px, py) * area >= 0
                       /\ w3(px, py) * area >= 0,
            depth |-> IF area = 0 THEN 0
                      ELSE (w1(px, py) * v1.z + w2(px, py) * v2.z
                            + w3(px, py) * v3.z) \div area,
            v |-> v1.id]
      scan == [k \in 1..(bw * bh) |-> frag(k)]
      covered == SelectSeq(scan, LAMBDA f : f.inside)
  IN IF area = 0 THEN <<>>
     ELSE [k \in 1..Len(covered) |->
             [x |-> covered[k].x, y |-> covered[k].y,
              depth |-> covered[k].depth, v |-> covered[k].v]]


\* ----- colours --------------------------------------------------------------
NoFragment == [x |-> 0, y |-> 0, depth |-> 0, v |-> 0]
NoUniforms == [view |-> 0, viewport_w |-> 0, viewport_h |-> 0]
HexColor(name) == [shader |-> name, fragment |-> NoFragment, uniforms |-> NoUniforms]
BackgroundColor == HexColor("0x333355")        \* set_background_color(0x333355)
\* current_shader(&fragment, uniforms).to_hex(): the colour a shader computes is
\* a function of the shader, the fragment and the uniforms.
Shade(shader, fragment, u) == [shader |-> shader, fragment |-> fragment, uniforms |-> u]

\* ----- Framebuffer ----------------------------------------------------------
Far == 999                                     \* the "far" depth sentinel
Pixels(w, h) == 0..(w * h - 1)
FramebufferNew(w, h) ==
  [width |-> w, height |-> h,
   buffer |-> [i \in Pixels(w, h) |-> HexColor("0x000000")],
   zbuffer |-> [i \in Pixels(w, h) |-> Far],
   background_color |-> HexColor("0x000000"),
   current_color |-> HexColor("0xFFFFFF")]
set_background_color(fb, c) == [fb EXCEPT !.background_color = c]
set_current_color(fb, c) == [fb EXCEPT !.current_color = c]
clear(fb) ==
  [fb EXCEPT !.buffer = [i \in DOMAIN fb.buffer |-> fb.background_color],
             !.zbuffer = [i \in DOMAIN fb.zbuffer |-> Far]]
PixelIndex(fb, x, y) == y * fb.width + x
point(fb, x, y, depth) ==
  LET index == PixelIndex(fb, x, y)
  IN IF depth < fb.zbuffer[index]
     THEN [fb EXCEPT !.buffer[index] = fb.current_color, !.zbuffer[index] = depth]
     ELSE fb

\* ----- state ------------------------------------------------------------------
VARIABLES
  pc,                 \* position of main: loop, input, clear, uniforms, render,
                      \* raster_loop, ring_loop, planet_loop, present, done
  current_shader,     \* main's current_shader
  show_ring,          \* main's show_ring
  camera,             \* the camera's pan along x
  framebuffer,        \* the Framebuffer
  uniforms,           \* the Uniforms of the current frame
  vertex_array,       \* the planet mesh
  ring_vertex_array,  \* the ring mesh
  render_args,        \* render's by-value arguments current_shader, show_ring
  fragments,          \* render's fragments (planet fragments not yet written)
  triangles,          \* render's triangles (planet)
  tri_next,           \* position of `for tri in &triangles`
  ring_triangles,     \* render's ring_triangles
  ring_next,          \* position of `for tri in &ring_triangles`
  ring_fragments,     \* fragments of the current ring triangle not yet written
  log,                \* history: fragments processed in this iteration, in order
  iter,               \* history: what this iteration of the loop has done
  keys_hist           \* history: number keys of the last call, and selections

vars == <<pc, current_shader, show_ring, camera, framebuffer, uniforms, vertex_array,
          ring_vertex_array, render_args, fragments, triangles, tri_next,
          ring_triangles, ring_next, ring_fragments, log, iter, keys_hist>>

mesh == <<vertex_array, ring_vertex_array>>
render_locals == <<render_args, fragments, triangles, tri_next, ring_triangles,
                   ring_next, ring_fragments>>
input_state == <<current_shader, show_ring, camera>>

NoKeys == [called |-> FALSE, sel |-> 0, single |-> FALSE, ring_before |-> FALSE,
           eight_seen |-> FALSE, eight_then_two |-> FALSE]
NoRenderArgs == [current_shader |-> "rocky_planet_shader", show_ring |-> FALSE]
NewIteration == [inputs |-> 0, clears |-> 0, uniforms |-> 0, renders |-> 0, presents |-> 0]

Init ==
  /\ pc = "loop"
  /\ current_shader = "rocky_planet_shader"
  /\ show_ring = FALSE
  /\ camera = 0
  /\ framebuffer = set_background_color(FramebufferNew(Width, Height), BackgroundColor)
  /\ uniforms = NoUniforms
  /\ \E n \in 0..MaxVerts : vertex_array = PlanetMesh(n)
  /\ \E n \in 0..MaxRingVerts : ring_vertex_array = RingMesh(n)
  /\ render_args = NoRenderArgs
  /\ fragments = <<>>
  /\ triangles = <<>>
  /\ tri_next = 1
  /\ ring_triangles = <<>>
  /\ ring_next = 1
  /\ ring_fragments = <<>>
  /\ log = <<>>
  /\ iter = NewIteration
  /\ keys_hist = NoKeys

\* ----- main loop ----------------------------------------------------------------
\* while window.is_open() { if window.is_key_down(Key::Escape) { break; } ...
QuitCheck ==
  /\ pc = "loop"
  /\ \E is_open \in BOOLEAN, escape \in BOOLEAN :
       pc' = IF is_open /\ ~escape THEN "input" ELSE "done"
  /\ log' = <<>>
  /\ iter' = NewIteration
  /\ UNCHANGED <<input_state, framebuffer, uniforms, mesh, render_locals, keys_hist>>

\* the eight `if window.is_key_down(Key::KeyN)` blocks of handle_input
\* mutants: key 2 turns the ring off like its neighbours; key 7 forgets the ring
Key2RingOff(st) == [shader |-> "gas_giant_shader", ring |-> FALSE]
Key7KeepsRing(st) == [st EXCEPT !.shader = "moon_shader"]
Key1(st) == [shader |-> "rocky_planet_shader", ring |-> FALSE]
Key2(st) == [st EXCEPT !.shader = "gas_giant_shader"]
Key3(st) == [shader |-> "volcanic_planet_shader", ring |-> FALSE]
Key4(st) == [shader |-> "icy_planet_shader", ring |-> FALSE]
Key5(st) == [shader |-> "desert_planet_shader", ring |-> FALSE]
Key6(st) == [shader |-> "water_planet_shader", ring |-> FALSE]
Key7(st) == [shader |-> "moon_shader", ring |-> FALSE]
Key8(st) == [shader |-> "gas_giant_shader2", ring |-> TRUE]
KeyBlock(k, st) ==
  CASE k = 1 -> Key1(st) [] k = 2 -> Key2(st) [] k = 3 -> Key3(st) [] k = 4 -> Key4(st)
    [] k = 5 -> Key5(st) [] k = 6 -> Key6(st) [] k = 7 -> Key7(st) [] k = 8 -> Key8(st)

\* the blocks run in source order, each only when its key is down
RECURSIVE SelectShader(_, _, _)
SelectShader(k, down, st) ==
  IF k > 8 THEN st
  ELSE SelectShader(k + 1, down, IF k \in down THEN KeyBlock(k, st) ELSE st)

\* movement.x -= speed on A, += speed on D; move_center when non-zero
Movement(down) == (IF "D" \in down THEN 1 ELSE 0) - (IF "A" \in down THEN 1 ELSE 0)
move_center(cam, movement) == cam + movement

Highest(down) == CHOOSE k \in down : \A j \in down : j <= k

\* handle_input with the keys `down` and `moves` held down.  Of the camera only the
\* pan along x (keys A and D) is kept; orbit, zoom and the vertical pan change the
\* view as well but touch neither the shader selection nor the Framebuffer.
handle_input(down, moves) ==
  LET st == SelectShader(1, down, [shader |-> current_shader, ring |-> show_ring])
      cam == IF Movement(moves) # 0 THEN move_center(camera, Movement(moves))
             ELSE camera
  IN /\ cam \in (0 - MaxPan)..MaxPan
     /\ current_shader' = st.shader
     /\ show_ring' = st.ring
     /\ camera' = cam

\* mutant: Escape is looked at again after handle_input
HandleInputThenQuit ==
  /\ pc = "input"
  /\ \E down \in SUBSET NumberKeys, moves \in SUBSET MoveKeys : handle_input(down, moves)
  /\ \E escape \in BOOLEAN : pc' = IF escape THEN "done" ELSE "clear"
  /\ iter' = [iter EXCEPT !.inputs = @ + 1]
  /\ UNCHANGED <<framebuffer, uniforms, mesh, render_locals, log, keys_hist>>

\* handle_input(&window, &mut camera, &mut current_shader, &mut show_ring);
HandleInput ==
  /\ pc = "input"
  /\ \E down \in SUBSET NumberKeys, moves \in SUBSET MoveKeys : handle_input(down, moves)
  /\ pc' = "clear"
  /\ iter' = [iter EXCEPT !.inputs = @ + 1]
  /\ UNCHANGED <<framebuffer, uniforms, mesh, render_locals, log, keys_hist>>

\* mutant: the frame is drawn over the previous one
ClearForgotten ==
  /\ pc = "clear"
  /\ pc' = "uniforms"
  /\ iter' = [iter EXCEPT !.clears = @ + 1]
  /\ UNCHANGED <<input_state, framebuffer, uniforms, mesh, render_locals, log, keys_hist>>

\* framebuffer.clear();
Clear ==
  /\ pc = "clear"
  /\ framebuffer' = clear(framebuffer)
  /\ pc' = "uniforms"
  /\ iter' = [iter EXCEPT !.clears = @ + 1]
  /\ UNCHANGED <<input_state, uniforms, mesh, render_locals, log, keys_hist>>

\* let uniforms = Uniforms { model_matrix, view_matrix, projection_matrix, ... };
\* (the model matrix is the identity; the elapsed time is left out)
create_view_matrix(cam) == cam
BuildUniforms ==
  /\ pc = "uniforms"
  /\ uniforms' = [view |-> create_view_matrix(camera),
                  viewport_w |-> Width, viewport_h |-> Height]
  /\ pc' = "render"
  /\ iter' = [iter EXCEPT !.uniforms = @ + 1]
  /\ UNCHANGED <<input_state, framebuffer, mesh, render_locals, log, keys_hist>>

\* ----- render ------------------------------------------------------------------
\* vertex_array.iter().map(|vertex| vertex_shader(vertex, uniforms))
TransformPlanet(va, u) == [i \in 1..Len(va) |-> vertex_shader(va[i], u)]
\* the ring vertices are moved by the translation before the vertex shader
TransformRing(va, u) ==
  [i \in 1..Len(va) |-> vertex_shader([va[i] EXCEPT !.y = @ + RingTranslationY], u)]
\* render is entered: the planet vertices are transformed and grouped in triangles
RenderBegin ==
  /\ pc = "render"
  /\ render_args' = [current_shader |-> current_shader, show_ring |-> show_ring]
  /\ triangles' = chunks(TransformPlanet(vertex_array, uniforms))
  /\ tri_next' = 1
  /\ fragments' = <<>>
  /\ pc' = "raster_loop"
  /\ iter' = [iter EXCEPT !.renders = @ + 1]
  /\ UNCHANGED <<input_state, framebuffer, uniforms, mesh, ring_triangles, ring_next,
                 ring_fragments, log, keys_hist>>

\* for tri in &triangles { fragments.extend(triangle(&tri[0], &tri[1], &tri[2])); }
PlanetTriangle ==
  /\ pc = "raster_loop"
  /\ tri_next <= Len(triangles)
  /\ fragments' = fragments \o triangle(triangles[tri_next][1], triangles[tri_next][2],
                                        triangles[tri_next][3])
  /\ tri_next' = tri_next + 1
  /\ UNCHANGED <<pc, input_state, framebuffer, uniforms, mesh, render_args, triangles,
                 ring_triangles, ring_next, ring_fragments, log, iter, keys_hist>>

\* if show_ring { the ring vertices are moved, transformed and grouped } 
RingBegin ==
  /\ pc = "raster_loop"
  /\ tri_next > Len(triangles)
  /\ ring_triangles' = IF render_args.show_ring
                       THEN chunks(TransformRing(ring_vertex_array, uniforms))
                       ELSE <<>>
  /\ ring_next' = 1
  /\ pc' = IF render_args.show_ring THEN "ring_loop" ELSE "planet_loop"
  /\ UNCHANGED <<input_state, framebuffer, uniforms, mesh, render_args, fragments, triangles,
                 tri_next, ring_fragments, log, iter, keys_hist>>

\* mutants of the loop body: an off-by-one bound on x; the colour is not set
WriteFragmentLooseBound(fb, kind, fragment, shader, u) ==
  LET x == AsUsize(fragment.x)
      y == AsUsize(fragment.y)
      shaded_color == Shade(shader, fragment, u)
      entry == [kind |-> kind, shader |-> shader, fragment |-> fragment, x |-> x, y |-> y,
                color |-> shaded_color]
  IN IF x <= fb.width /\ y < fb.height
     THEN LET after == point(set_current_color(fb, shaded_color), x, y, fragment.depth)
          IN [fb |-> after,
              entry |-> entry @@ [plotted |-> TRUE,
                                  changed |-> after.buffer # fb.buffer
                                              \/ after.zbuffer # fb.zbuffer]]
     ELSE [fb |-> fb, entry |-> entry @@ [plotted |-> FALSE, changed |-> FALSE]]
WriteFragmentStaleColor(fb, kind, fragment, shader, u) ==
  LET x == AsUsize(fragment.x)
      y == AsUsize(fragment.y)
      shaded_color == Shade(shader, fragment, u)
      entry == [kind |-> kind, shader |-> shader, fragment |-> fragment, x |-> x, y |-> y,
                color |-> shaded_color]
  IN IF x < fb.width /\ y < fb.height
     THEN LET after == point(fb, x, y, fragment.depth)
          IN [fb |-> after,
              entry |-> entry @@ [plotted |-> TRUE,
                                  changed |-> after.buffer # fb.buffer
                                              \/ after.zbuffer # fb.zbuffer]]
     ELSE [fb |-> fb, entry |-> entry @@ [plotted |-> FALSE, changed |-> FALSE]]

\* the body both fragment loops share:
\*   let (x, y) = (fragment.position.x as usize, fragment.position.y as usize);
\*   if x < framebuffer.width && y < framebuffer.height {
\*       set_current_color(shader(&fragment, uniforms).to_hex()); point(x, y, depth) }
\* The result is the framebuffer afterwards and the history entry of the step.
WriteFragment(fb, kind, fragment, shader, u) ==
  LET x == AsUsize(fragment.x)
      y == AsUsize(fragment.y)
      shaded_color == Shade(shader, fragment, u)
      entry == [kind |-> kind, shader |-> shader, fragment |-> fragment, x |-> x, y |-> y,
                color |-> shaded_color]
  IN IF x < fb.width /\ y < fb.height
     THEN LET after == point(set_current_color(fb, shaded_color), x, y, fragment.depth)
          IN [fb |-> after,
              entry |-> entry @@ [plotted |-> TRUE,
                                  changed |-> after.buffer # fb.buffer
                                              \/ after.zbuffer # fb.zbuffer]]
     ELSE [fb |-> fb, entry |-> entry @@ [plotted |-> FALSE, changed |-> FALSE]]

\* for tri in &ring_triangles { let ring_fragments = triangle(...);
RingTriangle ==
  /\ pc = "ring_loop"
  /\ ring_fragments = <<>>
  /\ ring_next <= Len(ring_triangles)
  /\ ring_fragments' = triangle(ring_triangles[ring_next][1], ring_triangles[ring_next][2],
                                ring_triangles[ring_next][3])
  /\ ring_next' = ring_next + 1
  /\ UNCHANGED <<pc, input_state, framebuffer, uniforms, mesh, render_args, fragments,
                 triangles, tri_next, ring_triangles, log, iter, keys_hist>>

\* mutant: the ring loop shades with the planet's shader
RingFragmentPlanetShader ==
  /\ pc = "ring_loop"
  /\ ring_fragments # <<>>
  /\ LET step == WriteFragment(framebuffer, "ring", Head(ring_fragments),
                                render_args.current_shader, uniforms)
     IN /\ framebuffer' = step.fb
        /\ log' = Append(log, step.entry)
  /\ ring_fragments' = Tail(ring_fragments)
  /\ UNCHANGED <<pc, input_state, uniforms, mesh, render_args, fragments, triangles,
                 tri_next, ring_triangles, ring_next, iter, keys_hist>>

\* for fragment in ring_fragments { ... ring_shader_fn ... }
RingFragment ==
  /\ pc = "ring_loop"
  /\ ring_fragments # <<>>
  /\ LET step == WriteFragment(framebuffer, "ring", Head(ring_fragments), "ring_shader",
                                uniforms)
     IN /\ framebuffer' = step.fb
        /\ log' = Append(log, step.entry)
  /\ ring_fragments' = Tail(ring_fragments)
  /\ UNCHANGED <<pc, input_state, uniforms, mesh, render_args, fragments, triangles,
                 tri_next, ring_triangles, ring_next, iter, keys_hist>>

\* end of the `if show_ring { ... }` block
RingEnd ==
  /\ pc = "ring_loop"
  /\ ring_fragments = <<>>
  /\ ring_next > Len(ring_triangles)
  /\ pc' = "planet_loop"
  /\ UNCHANGED <<input_state, framebuffer, uniforms, mesh, render_locals, log, iter,
                 keys_hist>>

\* for fragment in fragments { ... current_shader ... }
PlanetFragment ==
  /\ pc = "planet_loop"
  /\ fragments # <<>>
  /\ LET step == WriteFragment(framebuffer, "planet", Head(fragments),
                                render_args.current_shader, uniforms)
     IN /\ framebuffer' = step.fb
        /\ log' = Append(log, step.entry)
  /\ fragments' = Tail(fragments)
  /\ UNCHANGED <<pc, input_state, uniforms, mesh, render_args, triangles, tri_next,
                 ring_triangles, ring_next, ring_fragments, iter, keys_hist>>

\* render returns: its locals are dropped
RenderEnd ==
  /\ pc = "planet_loop"
  /\ fragments = <<>>
  /\ pc' = "present"
  /\ render_args' = NoRenderArgs
  /\ triangles' = <<>>
  /\ tri_next' = 1
  /\ ring_triangles' = <<>>
  /\ ring_next' = 1
  /\ UNCHANGED <<input_state, framebuffer, uniforms, mesh, fragments, ring_fragments, log,
                 iter, keys_hist>>

\* window.update_with_buffer(&framebuffer.buffer, ...); sleep(frame_delay);
\* the iteration ends and its uniforms are dropped
Present ==
  /\ pc = "present"
  /\ pc' = "loop"
  /\ uniforms' = NoUniforms
  /\ iter' = [iter EXCEPT !.presents = @ + 1]
  /\ UNCHANGED <<input_state, framebuffer, mesh, render_locals, log, keys_hist>>

Next ==
  \/ QuitCheck
  \/ HandleInput
  \/ Clear
  \/ BuildUniforms
  \/ RenderBegin
  \/ PlanetTriangle
  \/ RingBegin
  \/ RingTriangle
  \/ RingFragment
  \/ RingEnd
  \/ PlanetFragment
  \/ RenderEnd
  \/ Present

Spec == Init /\ [][Next]_vars

\* ----- handle_input on its own: any sequence of calls ---------------------------
\* The history records, for the last call, the selected (highest) number key, whether
\* it was the only number key down and show_ring before the call; and whether a
\* key-8 selection, and a key-2 selection after one, have happened so far.
InputInit ==
  /\ Init
  /\ vertex_array = <<>>
  /\ ring_vertex_array = <<>>

InputCall ==
  /\ \E down \in SUBSET NumberKeys, moves \in SUBSET MoveKeys :
       LET sel == IF down = {} THEN 0 ELSE Highest(down)
       IN /\ handle_input(down, moves)
          /\ keys_hist' = [called |-> TRUE,
                           sel |-> sel,
                           single |-> Cardinality(down) = 1,
                           ring_before |-> show_ring,
                           eight_seen |-> keys_hist.eight_seen \/ sel = 8,
                           eight_then_two |-> keys_hist.eight_then_two
                                               \/ (keys_hist.eight_seen /\ sel = 2)]
  /\ UNCHANGED <<pc, framebuffer, uniforms, mesh, render_locals, log, iter>>

InputSpec == InputInit /\ [][InputCall]_vars

\* ===== properties =================================================================
RenderPcs == {"ring_loop", "planet_loop"}
FramePcs == {"input", "clear", "uniforms", "render", "raster_loop", "ring_loop",
             "planet_loop", "present"}
Plotted == {i \in DOMAIN log : log[i].plotted}
PlottedAt(idx) == {i \in Plotted : log[i].y * Width + log[i].x = idx}
OnScreen(fragment) == fragment.x \in 0..(Width - 1) /\ fragment.y \in 0..(Height - 1)
ShaderOfKey == <<"rocky_planet_shader", "gas_giant_shader", "volcanic_planet_shader",
                 "icy_planet_shader", "desert_planet_shader", "water_planet_shader",
                 "moon_shader", "gas_giant_shader2">>

\* C1: after a call of handle_input, if the selected (highest) number key was 1, 3,
\* 4, 5, 6 or 7 then show_ring is false; if it was 8 then show_ring is true; if key 2
\* was the only number key down then current_shader is gas_giant_shader and show_ring
\* has the value it had before the call.
C1_RingFlagPerKey ==
  keys_hist.called =>
    /\ keys_hist.sel \in {1, 3, 4, 5, 6, 7} => show_ring = FALSE
    /\ keys_hist.sel = 8 => show_ring = TRUE
    /\ (keys_hist.sel = 2 /\ keys_hist.single) =>
         /\ current_shader = "gas_giant_shader"
         /\ show_ring = keys_hist.ring_before
C1_Witness ==
  /\ keys_hist.called
  /\ keys_hist.sel = 2
  /\ keys_hist.single
  /\ keys_hist.ring_before = TRUE
  /\ show_ring = TRUE

\* C10: after any sequence of handle_input calls from the initial state, show_ring
\* implies that current_shader is gas_giant_shader2 or gas_giant_shader; the highest
\* number key down in a call determines current_shader; and gas_giant_shader with
\* show_ring is reached only when a key-8 selection was followed later by a key-2
\* selection.
C10_RingImpliesGasGiant ==
  /\ show_ring => current_shader \in {"gas_giant_shader2", "gas_giant_shader"}
  /\ (keys_hist.called /\ keys_hist.sel # 0) => current_shader = ShaderOfKey[keys_hist.sel]
  /\ (current_shader = "gas_giant_shader" /\ show_ring) => keys_hist.eight_then_two
C10_Witness ==
  /\ current_shader = "gas_giant_shader"
  /\ show_ring
  /\ keys_hist.eight_then_two
  /\ keys_hist.sel = 0

\* C2: a fragment whose screen position is outside [0,width) x [0,height), a negative
\* x or y included, is discarded: it reaches no point call and changes neither buffer.
C2_OffScreenDiscarded ==
  \A i \in DOMAIN log :
    ~OnScreen(log[i].fragment) => (~log[i].plotted /\ ~log[i].changed)

\* C3: every point call render makes has 0 <= x < width and 0 <= y < height, and a
\* fragment whose pixel coordinate (after the cast) has x >= width or y >= height
\* reaches no point call and changes neither buffer.
C3_PointInBounds ==
  \A i \in DOMAIN log :
    /\ log[i].plotted =>
         (0 <= log[i].x /\ log[i].x < Width /\ 0 <= log[i].y /\ log[i].y < Height)
    /\ (log[i].x >= Width \/ log[i].y >= Height) => (~log[i].plotted /\ ~log[i].changed)
C3_Witness ==
  /\ \E i \in DOMAIN log : log[i].plotted /\ log[i].changed
  /\ \E i \in DOMAIN log : log[i].x >= Width /\ log[i].kind = "planet"
  /\ \E i \in DOMAIN log : log[i].y >= Height /\ log[i].kind = "ring"

\* C4: after clear() and any point writes, every pixel holds the colour and the depth
\* of one and the same written fragment, one of minimal depth among those written to
\* that pixel, or the background colour and the far sentinel if none was written.
C4_NearestFragmentStored ==
  iter.clears = 1 =>
    \A idx \in DOMAIN framebuffer.buffer :
      IF PlottedAt(idx) = {}
      THEN /\ framebuffer.buffer[idx] = framebuffer.background_color
           /\ framebuffer.zbuffer[idx] = Far
      ELSE \E i \in PlottedAt(idx) :
             /\ framebuffer.buffer[idx] = log[i].color
             /\ framebuffer.zbuffer[idx] = log[i].fragment.depth
             /\ \A j \in PlottedAt(idx) : log[i].fragment.depth <= log[j].fragment.depth
\* one pixel got a farther fragment first, another pixel a nearer fragment first
C4_Witness ==
  /\ iter.clears = 1
  /\ \E idx \in DOMAIN framebuffer.buffer : \E i, j \in PlottedAt(idx) :
       i < j /\ log[i].fragment.depth > log[j].fragment.depth
  /\ \E idx \in DOMAIN framebuffer.buffer : \E i, j \in PlottedAt(idx) :
       i < j /\ log[i].fragment.depth < log[j].fragment.depth

\* C5: in an iteration that renders, clear() runs exactly once, before any point write
\* and before the present; right after it every pixel is the background colour at the
\* far depth, the first write at any pixel succeeds, and the buffer presented holds
\* only the background and colours written in this iteration.
C5_ClearOncePerFrame ==
  /\ pc \in {"input", "clear"} => (iter.clears = 0 /\ log = <<>>)
  /\ pc \in FramePcs \ {"input", "clear"} => iter.clears = 1
  /\ pc = "uniforms" =>
       \A idx \in DOMAIN framebuffer.buffer :
         /\ framebuffer.buffer[idx] = framebuffer.background_color
         /\ framebuffer.zbuffer[idx] = Far
  /\ \A idx \in DOMAIN framebuffer.buffer :
       \A i \in PlottedAt(idx) : (\A j \in PlottedAt(idx) : i <= j) => log[i].changed
  /\ pc = "present" =>
       \A idx \in DOMAIN framebuffer.buffer :
         \/ framebuffer.buffer[idx] = BackgroundColor /\ PlottedAt(idx) = {}
         \/ \E i \in PlottedAt(idx) :
              /\ framebuffer.buffer[idx] = log[i].color
              /\ log[i].color.uniforms = uniforms
\* a second frame is about to be presented whose picture differs from the one before
C5_Witness ==
  /\ pc = "present"
  /\ camera # 0
  /\ \E idx \in DOMAIN framebuffer.buffer : PlottedAt(idx) = {}
  /\ \E idx \in DOMAIN framebuffer.buffer : PlottedAt(idx) # {}

\* C6: within one frame no ring fragment is written to the Framebuffer before every
\* planet fragment of that frame has been written.
C6_PlanetBeforeRing ==
  \A i, j \in Plotted :
    (log[i].kind = "planet" /\ log[j].kind = "ring") => i < j

\* C7: every planet fragment written in a frame is shaded by the variant that
\* handle_input left in current_shader, every ring fragment by ring_shader, ring
\* fragments are written only when show_ring is true, and handle_input leaves the
\* Framebuffer unchanged.
C7_Shaders ==
  pc \in RenderPcs \cup {"present"} =>
    \A i \in DOMAIN log :
      /\ log[i].kind = "planet" =>
           /\ log[i].shader = current_shader
           /\ log[i].plotted => log[i].color = Shade(current_shader, log[i].fragment, uniforms)
      /\ log[i].kind = "ring" =>
           /\ show_ring
           /\ log[i].shader = "ring_shader"
           /\ log[i].plotted => log[i].color = Shade("ring_shader", log[i].fragment, uniforms)
C7_InputKeepsFramebuffer == pc = "input" => framebuffer' = framebuffer
C7_OneShaderPerFrame == []C7_Shaders /\ [][C7_InputKeepsFramebuffer]_vars
C7_Witness ==
  /\ pc = "present"
  /\ current_shader = "gas_giant_shader"
  /\ \E i \in Plotted : log[i].kind = "ring" /\ log[i].changed
  /\ \E i \in Plotted : log[i].kind = "planet" /\ log[i].changed

\* C8: render forms exactly floor(n/3) triangles from n vertices, triangle k being
\* the transformed elements 3k-2, 3k-1, 3k (counting from 1); the trailing n mod 3
\* vertices reach no triangle; for the planet mesh and the ring mesh alike.
Grouped(tris, transformed) ==
  /\ Len(tris) = Len(transformed) \div 3
  /\ \A k \in 1..Len(tris) :
       tris[k] = <<transformed[3 * k - 2], transformed[3 * k - 1], transformed[3 * k]>>
C8_TrianglesByThree ==
  pc \in RenderPcs =>
    /\ Grouped(triangles, TransformPlanet(vertex_array, uniforms))
    /\ render_args.show_ring =>
         Grouped(ring_triangles, TransformRing(ring_vertex_array, uniforms))
    /\ \A i \in DOMAIN log :
         \/ /\ log[i].kind = "planet"
            /\ \E k \in 1..(Len(vertex_array) \div 3) :
                 log[i].fragment.v = vertex_array[3 * k - 2].id
         \/ /\ log[i].kind = "ring"
            /\ \E k \in 1..(Len(ring_vertex_array) \div 3) :
                 log[i].fragment.v = ring_vertex_array[3 * k - 2].id
C8_Witness ==
  /\ pc = "planet_loop"
  /\ render_args.show_ring
  /\ Len(vertex_array) = 7
  /\ Len(triangles) = 2
  /\ Len(ring_vertex_array) = 4
  /\ Len(ring_triangles) = 1
  /\ log # <<>>

\* C9: the quit signal is observed only at the head of the loop: an iteration that
\* observes it does no handle_input, clear, Framebuffer write or present, and an
\* iteration that passed the check goes through handle_input, clear, render and
\* present, in that order, before the check is made again.
CompleteIteration == [inputs |-> 1, clears |-> 1, uniforms |-> 1, renders |-> 1, presents |-> 1]
C9_Positions ==
  /\ pc = "done" => (iter = NewIteration /\ log = <<>>)
  /\ pc = "loop" => iter \in {NewIteration, CompleteIteration}
C9_Steps ==
  /\ pc' = "done" => (pc = "loop" /\ UNCHANGED <<framebuffer, input_state>>)
  /\ pc = "input" => (pc' = "clear" /\ iter'.inputs = 1)
  /\ pc = "clear" => (pc' = "uniforms" /\ iter'.clears = 1)
  /\ pc = "uniforms" => pc' = "render"
  /\ pc = "render" => (pc' = "raster_loop" /\ iter'.renders = 1)
  /\ pc = "raster_loop" => pc' \in {"raster_loop", "ring_loop", "planet_loop"}
  /\ pc = "ring_loop" => pc' \in RenderPcs
  /\ pc = "planet_loop" => pc' \in {"planet_loop", "present"}
  /\ pc = "present" => (pc' = "loop" /\ iter'.presents = 1)
C9_QuitBetweenFrames == []C9_Positions /\ [][C9_Steps]_vars
C9_Witness ==
  /\ pc = "done"
  /\ \E idx \in DOMAIN framebuffer.buffer :
       framebuffer.buffer[idx] \notin {BackgroundColor, HexColor("0x000000")}

====
